---------------------------- MODULE Spec2Model ----------------------------
(***************************************************************************)
(* A model of the search core of the Cree intelligent dictionary:          *)
(*   - Query            (CreeDictionary/API/search/query.py)               *)
(*   - SearchRun        (src/CreeDictionary/API/search/core.py)            *)
(*   - fetch_results    (src/CreeDictionary/API/search/lookup.py)          *)
(*                                                                         *)
(* Text is modelled as a sequence of chunks; a chunk is one character or   *)
(* one indivisible run of letters (a word such as "verbose"); a letter    *)
(* outside ASCII is written by its name ("a-macron").                      *)
(***************************************************************************)
EXTENDS Integers, Sequences, FiniteSets, TLC

VARIABLES
    \* ---- Query construction (SpecQuery) ----
    raw,              \* the raw query string handed to Query(...)
    q,                \* the constructed Query, or NotConstructed
    q2,               \* Query(q.query_string), or NotConstructed
    qpc,              \* "new" -> "parsed" -> "reparsed"
    \* ---- SearchRun (Spec, SpecFetch) ----
    search_run,       \* the SearchRun: _results and _verbose_messages
    raised,           \* the exception the last call raised, or None
    call,             \* the last call made on the SearchRun
    passed,           \* evidence handed to add_result, by identity
    seen,             \* identities of the candidates handed to add_result
    ncalls,           \* number of calls made so far
    \* ---- fetch_results (SpecFetch) ----
    lexicon,          \* the saved wordforms (Wordform.objects)
    fpc,              \* where fetch_results stands
    fst_analyses,     \* the analyses of the query still unexplained
    db_matches,       \* the wordforms of the first loop still to visit
    todo,             \* the analyses of the second loop still to visit
    log,              \* what logger.error was called with
    matched,          \* analyses for which an exact match was added
    synthesized,      \* the synthetic wordforms handed to add_result
    generated,        \* what the generator returned in the last pass
    \* ---- reading and presenting the results (SpecPresent) ----
    view,             \* what unsorted_results returned, held by its caller
    listings,         \* what each call of sorted_results returned
    ppc,              \* where serialized_presentation_results stands
    presented,        \* its local "results", still to serialize
    events            \* the calls it made, in order

qvars == <<raw, q, q2, qpc>>
rvars == <<search_run, raised, call, passed, seen, ncalls>>
fvars == <<lexicon, fpc, fst_analyses, db_matches, todo, log, matched,
           synthesized, generated>>
pvars == <<view, listings, ppc, presented, events>>
vars == <<qvars, rvars, fvars, pvars>>

None == "None"
NotConstructed == [constructed |-> FALSE, raised |-> None]

\* ------------------------------------------------------------------------
\* Bounds of the model
\* ------------------------------------------------------------------------
\* Longest raw query string, in chunks
MaxLen == 4
\* Calls made on one SearchRun
MaxCalls == 3
\* Saved wordforms (in the lexicon, or referred to by candidates)
MaxSaved == 2
\* Analyses the relaxed analyzer returns for one query
MaxAnalyses == 2
\* Surface forms the strict generator returns for one analysis
MaxForms == 2
\* Calls of sorted_results on one SearchRun
MaxListings == 2

\* ------------------------------------------------------------------------
\* Text
\* ------------------------------------------------------------------------
Space == " "
Colon == ":"
\* U+0302 COMBINING CIRCUMFLEX ACCENT
CombiningCircumflex == "^"
\* U+0301 COMBINING ACUTE ACCENT
CombiningAcute == "'"

\* Chunks that exercise directive parsing
DirectiveAlphabet ==
    {Space, Colon, "verbose", "cvd", "1", "9", "retrieval", "w"}

\* Chunks that exercise normalisation: case, composition, orthography
OrthographyAlphabet ==
    {Space, Colon, "CVD", "a", "a-macron", CombiningCircumflex, CombiningAcute}

\* The query of the spec's scenario: "verbose:true auto:no catches"
ScenarioQuery ==
    <<"verbose", Colon, "true", Space, "auto", Colon, "no", Space, "catches">>

BoundedSeq(S, n) == UNION {[1..m -> S] : m \in 0..n}

RawQueries ==
    BoundedSeq(DirectiveAlphabet, MaxLen)
        \cup BoundedSeq(OrthographyAlphabet, MaxLen)
        \cup {ScenarioQuery}

IsSpace(c) == c = Space

\* str.strip(): drop leading and trailing whitespace
RECURSIVE lstrip(_)
lstrip(s) ==
    IF s # <<>> /\ IsSpace(Head(s)) THEN lstrip(Tail(s)) ELSE s

RECURSIVE rstrip(_)
rstrip(s) ==
    IF s # <<>> /\ IsSpace(s[Len(s)])
    THEN rstrip(SubSeq(s, 1, Len(s) - 1))
    ELSE s

strip(s) == rstrip(lstrip(s))

\* The composed letter of a base letter and a combining mark, where Unicode
\* has one (it has none for a-macron with either mark)
Compose(base, mark) ==
    CASE base = "a" /\ mark = CombiningCircumflex -> "a-circumflex"
      [] base = "a" /\ mark = CombiningAcute -> "a-acute"
      [] base = "a-circumflex" /\ mark = CombiningAcute -> "a-circumflex-acute"
      [] OTHER -> None

\* unicodedata.normalize("NFC", s): a letter followed by a combining mark
\* is replaced by the composed letter, which composes further with the
\* next mark
RECURSIVE NFC(_)
NFC(s) ==
    IF Len(s) < 2 THEN s
    ELSE IF Compose(s[1], s[2]) # None
         THEN NFC(<<Compose(s[1], s[2])>> \o SubSeq(s, 3, Len(s)))
         ELSE <<s[1]>> \o NFC(Tail(s))

\* str.lower(), chunk by chunk
LowerChunk(c) == IF c = "CVD" THEN "cvd" ELSE c

lower(s) == [i \in 1..Len(s) |-> LowerChunk(s[i])]

\* to_sro_circumflex(): long vowels written with a macron become the
\* circumflexed vowels of the internal orthography
SroChunk(c) == IF c = "a-macron" THEN "a-circumflex" ELSE c

to_sro_circumflex(s) == [i \in 1..Len(s) |-> SroChunk(s[i])]

\* str.split(): the maximal runs of non-whitespace chunks, in order
RECURSIVE SplitFrom(_, _, _)
SplitFrom(s, cur, acc) ==
    IF s = <<>>
    THEN IF cur = <<>> THEN acc ELSE Append(acc, cur)
    ELSE IF IsSpace(Head(s))
         THEN SplitFrom(Tail(s), <<>>,
                        IF cur = <<>> THEN acc ELSE Append(acc, cur))
         ELSE SplitFrom(Tail(s), Append(cur, Head(s)), acc)

split(s) == SplitFrom(s, <<>>, <<>>)

\* " ".join(terms)
RECURSIVE join(_)
join(terms) ==
    IF terms = <<>> THEN <<>>
    ELSE IF Len(terms) = 1 THEN terms[1]
    ELSE terms[1] \o <<Space>> \o join(Tail(terms))

\* ":" in token
HasColon(token) == \E i \in 1..Len(token) : token[i] = Colon

FirstColon(token) ==
    CHOOSE i \in 1..Len(token) :
        /\ token[i] = Colon
        /\ \A j \in 1..(i - 1) : token[j] # Colon

\* user_key, value = token.split(":", 1)
UserKey(token) == SubSeq(token, 1, FirstColon(token) - 1)
Value(token) == SubSeq(token, FirstColon(token) + 1, Len(token))

\* ------------------------------------------------------------------------
\* Query  (CreeDictionary/API/search/query.py)
\* ------------------------------------------------------------------------
BOOL_KEYS == {<<"verbose">>, <<"auto">>}

\* marshmallow.fields.Boolean.truthy, restricted to the strings that
\* survive str.lower()
truthy == {<<"t">>, <<"true">>, <<"on">>, <<"y">>, <<"yes">>, <<"1">>}

\* the attribute was never assigned (Query declares no default for cvd)
Unset == "unset"

\* Optional[bool]: None is the empty set, a boolean b the set {b}
NoBool == {}
Some(b) == {b}

\* runner.CvdSearchType: value -> member
CvdByValue(n) ==
    CASE n = 0 -> "OFF"
      [] n = 1 -> "EXCLUSIVE"
      [] n = 2 -> "RETRIEVAL"
      [] OTHER -> None

\* the members in definition order, as iteration yields them
CvdSearchType == <<"OFF", "EXCLUSIVE", "RETRIEVAL">>

\* t.name.lower()
CvdNameLower(t) ==
    CASE t = "OFF" -> <<"off">>
      [] t = "EXCLUSIVE" -> <<"exclusive">>
      [] t = "RETRIEVAL" -> <<"retrieval">>

Digits == {"0", "1", "2", "9"}

DigitValue(c) ==
    CASE c = "0" -> 0 [] c = "1" -> 1 [] c = "2" -> 2 [] c = "9" -> 9

RECURSIVE DecimalValue(_, _)
DecimalValue(s, acc) ==
    IF s = <<>> THEN acc
    ELSE DecimalValue(Tail(s), acc * 10 + DigitValue(Head(s)))

\* int(value): the number, or ValueError for anything but a run of digits
int(value) ==
    IF value # <<>> /\ \A i \in 1..Len(value) : value[i] \in Digits
    THEN [raised |-> None, value |-> DecimalValue(value, 0)]
    ELSE [raised |-> "ValueError", value |-> 0]

\* runner.CvdSearchType(n): the member, or ValueError when no member has
\* that value
CvdSearchTypeCall(n) ==
    IF CvdByValue(n) # None
    THEN [raised |-> None, value |-> CvdByValue(n)]
    ELSE [raised |-> "ValueError", value |-> None]

\* for t in runner.CvdSearchType: if value == t.name.lower(): ... break
CvdByName(value) ==
    IF \E i \in 1..Len(CvdSearchType) : CvdNameLower(CvdSearchType[i]) = value
    THEN CvdSearchType[CHOOSE i \in 1..Len(CvdSearchType) :
             /\ CvdNameLower(CvdSearchType[i]) = value
             /\ \A j \in 1..(i - 1) : CvdNameLower(CvdSearchType[j]) # value]
    ELSE Unset

\* A slip: bool(value), true of every non-empty string
BoolValue_NonEmpty(value) == value # <<>>

\* value in marshmallow.fields.Boolean.truthy
BoolValue(value) == value \in truthy

\* A slip: the except clause guards int(value) alone, so the ValueError of
\* CvdSearchType(n) for a number that is no member's value escapes
ResolveCvd_IntOnly(value) ==
    LET n == int(value)
        t == CvdSearchTypeCall(n.value)
    IN  IF n.raised = "ValueError"
        THEN [raised |-> None, cvd |-> CvdByName(value)]
        ELSE IF t.raised # None
        THEN [raised |-> t.raised, cvd |-> Unset]
        ELSE [raised |-> None, cvd |-> t.value]

\* try: self.cvd = CvdSearchType(int(value))
\* except ValueError: look the value up among the member names.
\* Yields the exception that escapes (None: none) and the member assigned to
\* self.cvd (Unset: no assignment happens).
ResolveCvd(value) ==
    LET n == int(value)
        t == CvdSearchTypeCall(n.value)
        exc == IF n.raised # None THEN n.raised ELSE t.raised
    IN  IF exc = None
        THEN [raised |-> None, cvd |-> t.value]
        ELSE IF exc = "ValueError"
        THEN [raised |-> None, cvd |-> CvdByName(value)]
        ELSE [raised |-> exc, cvd |-> Unset]

\* A slip: a boolean directive is assigned only when its value is truthy
TokenStep_TruthyOnly(self, token) ==
    IF HasColon(token) /\ UserKey(token) \in BOOL_KEYS
    THEN IF BoolValue(Value(token))
         THEN [self EXCEPT ![UserKey(token)[1]] = Some(TRUE)]
         ELSE self
    ELSE IF HasColon(token) /\ UserKey(token) = <<"cvd">>
    THEN LET r == ResolveCvd(Value(token))
         IN  [self EXCEPT !.raised = r.raised,
                          !.cvd = IF r.cvd = Unset THEN @ ELSE r.cvd]
    ELSE [self EXCEPT !.query_terms = Append(@, token)]

\* One pass of the loop body over a token: a token whose key is a directive
\* is consumed, any other token is appended to query_terms
TokenStep(self, token) ==
    IF HasColon(token) /\ UserKey(token) \in BOOL_KEYS
    THEN [self EXCEPT ![UserKey(token)[1]] = Some(BoolValue(Value(token)))]
    ELSE IF HasColon(token) /\ UserKey(token) = <<"cvd">>
    THEN LET r == ResolveCvd(Value(token))
         IN  [self EXCEPT !.raised = r.raised,
                          !.cvd = IF r.cvd = Unset THEN @ ELSE r.cvd]
    ELSE [self EXCEPT !.query_terms = Append(@, token)]

\* for token in query_string.split(): ...   (an exception ends the loop)
RECURSIVE Scan(_, _)
Scan(self, tokens) ==
    IF tokens = <<>> \/ self.raised # None THEN self
    ELSE Scan(TokenStep(self, Head(tokens)), Tail(tokens))

\* the normalisation before tokenising
Normalize(query_string) ==
    to_sro_circumflex(lower(NFC(strip(query_string))))

\* A slip: validity judged on the raw string
IsValid_Raw(self) == self.raw_query_string # <<>>

\* self.is_valid = self.query_string != ""
IsValid(self) == self.query_string # <<>>

\* Query.__init__
Query(query_string) ==
    LET fresh == [constructed |-> TRUE, raised |-> None,
                  raw_query_string |-> query_string,
                  query_terms |-> <<>>, query_string |-> <<>>,
                  is_valid |-> FALSE,
                  verbose |-> NoBool, auto |-> NoBool, cvd |-> Unset]
        scanned == Scan(fresh, split(Normalize(query_string)))
        joined == [scanned EXCEPT !.query_string = join(scanned.query_terms)]
    IN  IF scanned.raised # None
        THEN [constructed |-> FALSE, raised |-> scanned.raised]
        ELSE [joined EXCEPT !.is_valid = IsValid(joined)]

\* q = Query(raw)
Construct ==
    /\ qpc = "new"
    /\ q' = Query(raw)
    /\ qpc' = "parsed"
    /\ UNCHANGED <<raw, q2, rvars, fvars, pvars>>

\* q2 = Query(q.query_string)
Reparse ==
    /\ qpc = "parsed"
    /\ q.constructed
    /\ q2' = Query(q.query_string)
    /\ qpc' = "reparsed"
    /\ UNCHANGED <<raw, q, rvars, fvars, pvars>>

QueryIdle ==
    /\ raw = <<>>
    /\ q = NotConstructed
    /\ q2 = NotConstructed
    /\ qpc = "idle"

QueryNew ==
    /\ raw \in RawQueries
    /\ q = NotConstructed
    /\ q2 = NotConstructed
    /\ qpc = "new"

\* ------------------------------------------------------------------------
\* Wordforms and Results
\* ------------------------------------------------------------------------
\* Wordform.id of a wordform that was never saved (Python: None); the
\* primary keys of saved wordforms start at 1
NoId == 0

\* an analysis: the lemma with the tags around it
Analysis(lemma, suffix_tags) ==
    [prefix_tags |-> <<>>, lemma |-> lemma, suffix_tags |-> suffix_tags]

LemmaA == <<"a">>

AnalysisN == Analysis(LemmaA, <<"+N">>)
AnalysisNPl == Analysis(LemmaA, <<"+N", "+Pl">>)
AnalysisV == Analysis(LemmaA, <<"+V">>)

\* the analyses the relaxed analyzer can return
Analyses == {AnalysisN, AnalysisNPl, AnalysisV}

\* the analyses stored with the wordforms of the lexicon
StoredAnalyses == {AnalysisN, AnalysisV}

\* Wordform(...): a model instance; lemma is the pk of the lemma wordform
Wordform(id, text, analysis, is_lemma, lemma) ==
    [type |-> "Wordform", id |-> id, text |-> text, analysis |-> analysis,
     is_lemma |-> is_lemma, lemma |-> lemma]

\* A slip: an unsaved wordform is told apart by its lemma as well
key_WithLemma(wordform) ==
    IF wordform.id # NoId
    THEN [pk |-> wordform.id]
    ELSE [text |-> wordform.text, analysis |-> wordform.analysis,
          lemma |-> wordform.lemma]

\* Wordform.key, a WordformKey: the int pk for a saved wordform, or
\* (text, analysis) for an unsaved one
key(wordform) ==
    IF wordform.id # NoId
    THEN [pk |-> wordform.id]
    ELSE [text |-> wordform.text, analysis |-> wordform.analysis]

\* Result(wordform, **features): the features given are the evidence
Result(wordform, evidence) ==
    [type |-> "Result", wordform |-> wordform, evidence |-> evidence]

\* Result.add_features_from(other): the evidence of other is added to the
\* evidence already held
add_features_from(self, other) ==
    [self EXCEPT !.evidence = @ \cup other.evidence]

\* isinstance(result, types.Result)
IsResult(value) == value.type = "Result"

\* ------------------------------------------------------------------------
\* SearchRun  (src/CreeDictionary/API/search/core.py)
\* ------------------------------------------------------------------------
\* _results is a dict: its entries in insertion order, one per key
HasKey(results, k) == \E i \in 1..Len(results) : results[i].key = k

IndexOf(results, k) == CHOOSE i \in 1..Len(results) : results[i].key = k

\* SearchRun.__init__: self._results = {}; self._verbose_messages = []
NewSearchRun == [results |-> <<>>, verbose_messages |-> <<>>]

Returned(self, exception) == [self |-> self, raised |-> exception]

\* A slip: a result found again replaces the one held
add_result_Replace(self, result) ==
    IF ~IsResult(result)
    THEN Returned(self, "TypeError")
    ELSE LET k == key(result.wordform) IN
         IF HasKey(self.results, k)
         THEN Returned([self EXCEPT !.results[IndexOf(self.results, k)].result
                                        = result], None)
         ELSE Returned([self EXCEPT !.results =
                            Append(@, [key |-> k, result |-> result])], None)

\* A slip: a value that is no Result is reported and skipped
add_result_Swallow(self, result) ==
    IF ~IsResult(result)
    THEN Returned([self EXCEPT !.verbose_messages =
                       Append(@, "not a Result")], None)
    ELSE LET k == key(result.wordform) IN
         IF HasKey(self.results, k)
         THEN Returned([self EXCEPT !.results[IndexOf(self.results, k)].result
                                        = add_features_from(@, result)], None)
         ELSE Returned([self EXCEPT !.results =
                            Append(@, [key |-> k, result |-> result])], None)

\* SearchRun.add_result
add_result(self, result) ==
    IF ~IsResult(result)
    THEN Returned(self, "TypeError")
    ELSE LET k == key(result.wordform) IN
         IF HasKey(self.results, k)
         THEN Returned([self EXCEPT !.results[IndexOf(self.results, k)].result
                                        = add_features_from(@, result)], None)
         ELSE Returned([self EXCEPT !.results =
                            Append(@, [key |-> k, result |-> result])], None)

\* SearchRun.has_result
has_result(self, result) == HasKey(self.results, key(result.wordform))

\* SearchRun.remove_result: del self._results[key]
remove_result(self, result) ==
    LET k == key(result.wordform) IN
    IF ~HasKey(self.results, k)
    THEN Returned(self, "KeyError")
    ELSE Returned([self EXCEPT !.results =
                       SubSeq(@, 1, IndexOf(@, k) - 1)
                           \o SubSeq(@, IndexOf(@, k) + 1, Len(@))], None)

\* SearchRun.add_verbose_message
add_verbose_message(self, message) ==
    Returned([self EXCEPT !.verbose_messages = Append(@, message)], None)

\* ---- the candidates that callers hand to a SearchRun ----
TextA == <<"a">>
TextAB == <<"a", "b">>

\* the identity of a wordform: its persisted id, or (text, analysis) when
\* it is unsaved
WordformIdentity(wordform) ==
    IF wordform.id # NoId
    THEN [pk |-> wordform.id]
    ELSE [text |-> wordform.text, analysis |-> wordform.analysis]

\* saved wordforms: homographs that differ in the primary key alone
SavedWordforms ==
    {Wordform(id, TextA, AnalysisN, TRUE, id) :
        id \in 1..MaxSaved}

\* wordforms synthesized during a search: never saved, attached to a lemma
UnsavedWordforms ==
    {Wordform(NoId, text, AnalysisNPl, FALSE, lemma) :
        text \in {TextA, TextAB}, lemma \in 1..MaxSaved}

\* Result(wordform, target_language_keyword_match=[keyword])
KeywordResult(wordform, keyword) ==
    Result(wordform, {[target_language_keyword_match |-> <<keyword>>]})

\* Result(wordform, source_language_match=wordform.text,
\*        query_wordform_edit_distance=distance)
SurfaceResult(wordform, distance) ==
    Result(wordform, {[source_language_match |-> wordform.text],
                      [query_wordform_edit_distance |-> distance]})

\* Result(synthetic_wordform, pronoun_as_is_match=True,
\*        query_wordform_edit_distance=distance)
SyntheticResult(wordform, distance) ==
    Result(wordform, {[pronoun_as_is_match |-> TRUE],
                      [query_wordform_edit_distance |-> distance]})

ResultCandidates ==
    {KeywordResult(w, "star") : w \in SavedWordforms}
        \cup {SurfaceResult(w, d) : w \in SavedWordforms, d \in {0, 1}}
        \cup {SyntheticResult(w, 1) : w \in UnsavedWordforms}

\* values that are not Results: a bare wordform, None
NonResults ==
    SavedWordforms \cup {[type |-> "NoneType"]}

\* what the history variables record of a call of add_result
Record(result) ==
    /\ seen' = seen \cup {WordformIdentity(result.wordform)}
    /\ passed' = passed \cup
           {[identity |-> WordformIdentity(result.wordform), item |-> e] :
               e \in result.evidence}

\* search_run.add_result(result)
AddResult(result) ==
    /\ ncalls < MaxCalls
    /\ LET r == add_result(search_run, result) IN
       /\ search_run' = r.self
       /\ raised' = r.raised
       /\ IF IsResult(result)
          THEN Record(result)
          ELSE UNCHANGED <<passed, seen>>
    /\ call' = [op |-> "add_result", arg |-> result]
    /\ ncalls' = ncalls + 1
    /\ UNCHANGED <<qvars, fvars, pvars>>

\* search_run.remove_result(result)
RemoveResult(result) ==
    /\ ncalls < MaxCalls
    /\ LET r == remove_result(search_run, result) IN
       /\ search_run' = r.self
       /\ raised' = r.raised
    /\ passed' = {p \in passed :
                     p.identity # WordformIdentity(result.wordform)}
    /\ call' = [op |-> "remove_result", arg |-> result]
    /\ ncalls' = ncalls + 1
    /\ UNCHANGED <<seen, qvars, fvars, pvars>>

\* search_run.add_verbose_message(message)
AddVerboseMessage(message) ==
    /\ ncalls < MaxCalls
    /\ LET r == add_verbose_message(search_run, message) IN
       /\ search_run' = r.self
       /\ raised' = r.raised
    /\ call' = [op |-> "add_verbose_message", arg |-> [type |-> "str"]]
    /\ ncalls' = ncalls + 1
    /\ UNCHANGED <<passed, seen, qvars, fvars, pvars>>

RunIdle ==
    /\ search_run = NewSearchRun
    /\ raised = None
    /\ call = [op |-> "__init__", arg |-> [type |-> "str"]]
    /\ passed = {}
    /\ seen = {}
    /\ ncalls = 0

\* ------------------------------------------------------------------------
\* Reading and presenting the results of a SearchRun (core.py)
\* ------------------------------------------------------------------------
\* self._results.values(), read now: the Results in insertion order
values(self) == [i \in 1..Len(self.results) |-> self.results[i].result]

\* SearchRun.unsorted_results: return self._results.values(), which is a
\* view object on the dict, not a copy of what it holds
unsorted_results(self) == [type |-> "dict_values", of |-> "_results"]

\* list(collection): what a returned collection holds when it is read; a
\* dict_values view shows the dict as it is at the time of reading
Contents(collection, self) ==
    IF collection.type = "dict_values"
    THEN values(self)
    ELSE collection.items

\* the edit distances measured for a Result
Distances(result) ==
    {e.query_wordform_edit_distance :
        e \in {f \in result.evidence :
                  "query_wordform_edit_distance" \in DOMAIN f}}

\* the least of a non-empty set of numbers
Least(numbers) == CHOOSE n \in numbers : \A other \in numbers : n <= other

\* the match kind of a Result: surface match, synthetic match, keyword only
MatchKind(result) ==
    IF \E e \in result.evidence : "source_language_match" \in DOMAIN e
    THEN 0
    ELSE IF \E e \in result.evidence : "pronoun_as_is_match" \in DOMAIN e
         THEN 1
         ELSE 2

\* the default relevance score, lower is better: match kind first, then
\* the least edit distance, then lemma-hood
DefaultScore(result) ==
    MatchKind(result) * 100
        + (IF Distances(result) = {} THEN 9 ELSE Least(Distances(result))) * 10
        + (IF result.wordform.is_lemma THEN 0 ELSE 1)

IsScored(result) == "relevance_score" \in DOMAIN result

\* Result.assign_default_relevance_score: scores a Result not yet scored
assign_default_relevance_score(result) ==
    IF IsScored(result)
    THEN result
    ELSE [type |-> "Result", wordform |-> result.wordform,
          evidence |-> result.evidence,
          relevance_score |-> DefaultScore(result)]

\* Result.__lt__
lt(a, b) == a.relevance_score < b.relevance_score

\* list.sort is stable: an element goes behind those it is not less than
RECURSIVE Insert(_, _)
Insert(sorted, r) ==
    IF sorted = <<>> THEN <<r>>
    ELSE IF lt(r, Head(sorted)) THEN <<r>> \o sorted
    ELSE <<Head(sorted)>> \o Insert(Tail(sorted), r)

RECURSIVE sort(_)
sort(list) ==
    IF list = <<>> THEN <<>>
    ELSE Insert(sort(SubSeq(list, 1, Len(list) - 1)), list[Len(list)])

\* the run with every Result it holds scored
Scored(self) ==
    [self EXCEPT !.results =
        [i \in 1..Len(@) |->
            [key |-> @[i].key,
             result |-> assign_default_relevance_score(@[i].result)]]]

\* A slip: the Results are taken out of the run as they are listed
sorted_results_Drain(self) ==
    [self |-> [self EXCEPT !.results = <<>>],
     list |-> sort(values(Scored(self)))]

\* SearchRun.sorted_results: the Results are scored where they are held,
\* and a sorted list of them is returned
sorted_results(self) ==
    [self |-> Scored(self), list |-> sort(values(Scored(self)))]

\* a saved wordform that is not a lemma: an inflected form of wordform 1
InflectedWordforms ==
    {Wordform(MaxSaved + 1, TextAB, AnalysisNPl, FALSE, 1)}

\* wordform.lemma: the saved wordform a wordform names as its lemma
LemmaOf(wordform) ==
    CHOOSE w \in SavedWordforms \cup InflectedWordforms :
        w.id = wordform.lemma

\* the Results handed to a run that is read: keyword matches of the saved
\* lemmas, an exact match of the inflected form, and a synthetic Result
PresentCandidates ==
    {KeywordResult(w, "star") : w \in SavedWordforms}
        \cup {SurfaceResult(w, 0) : w \in InflectedWordforms}
        \cup {SyntheticResult(
                  Wordform(NoId, TextAB, AnalysisNPl, FALSE, MaxSaved), 1)}

\* A slip: the lemmas of the wordforms are left out
homograph_candidates_NoLemmas(results) ==
    SelectSeq([i \in 1..Len(results) |-> results[i].wordform],
              LAMBDA wf : wf.is_lemma /\ wf.id # NoId)

\* the argument of Wordform.bulk_homograph_disambiguate: of the wordforms
\* of the results, followed by their lemmas, those that are saved lemmas
homograph_candidates(results) ==
    LET wordforms ==
            [i \in 1..Len(results) |-> results[i].wordform]
                \o [i \in 1..Len(results) |-> LemmaOf(results[i].wordform)]
    IN  SelectSeq(wordforms, LAMBDA wf : wf.is_lemma /\ wf.id # NoId)

NoArgument == [type |-> "NoneType"]

\* view = search_run.unsorted_results()
UnsortedResults ==
    /\ ppc = "idle"
    /\ view' = {[returned |-> unsorted_results(search_run),
                 at_call |-> values(search_run)]}
    /\ raised' = None
    /\ call' = [op |-> "unsorted_results", arg |-> NoArgument]
    /\ UNCHANGED <<search_run, passed, seen, ncalls, listings, ppc,
                   presented, events, qvars, fvars>>

\* search_run.sorted_results()
SortedResults ==
    /\ ppc = "idle"
    /\ Len(listings) < MaxListings
    /\ LET r == sorted_results(search_run) IN
       /\ search_run' = r.self
       /\ listings' = Append(listings, [before |-> search_run,
                                        after |-> r.self,
                                        list |-> r.list])
    /\ raised' = None
    /\ call' = [op |-> "sorted_results", arg |-> NoArgument]
    /\ UNCHANGED <<passed, seen, ncalls, view, ppc, presented, events,
                   qvars, fvars>>

\* serialized_presentation_results, up to results = presentation_results()
PresentationResults ==
    /\ ppc = "idle"
    /\ LET r == sorted_results(search_run) IN
       /\ search_run' = r.self
       /\ presented' = [results |-> r.list, next |-> 1]
    /\ raised' = None
    /\ call' = [op |-> "serialized_presentation_results",
                arg |-> NoArgument]
    /\ ppc' = "disambiguate"
    /\ UNCHANGED <<passed, seen, ncalls, view, listings, events, qvars,
                   fvars>>

\* Wordform.bulk_homograph_disambiguate([...])
Disambiguate ==
    /\ ppc = "disambiguate"
    /\ events' = Append(events,
           [op |-> "bulk_homograph_disambiguate",
            arg |-> homograph_candidates(presented.results)])
    /\ ppc' = "serialize"
    /\ UNCHANGED <<view, listings, presented, rvars, qvars, fvars>>

\* one r.serialize() of the list comprehension
Serialize ==
    /\ ppc = "serialize"
    /\ presented.next <= Len(presented.results)
    /\ events' = Append(events,
           [op |-> "serialize", arg |-> presented.results[presented.next]])
    /\ presented' = [presented EXCEPT !.next = @ + 1]
    /\ UNCHANGED <<view, listings, ppc, rvars, qvars, fvars>>

\* return [...]
ReturnSerialized ==
    /\ ppc = "serialize"
    /\ presented.next > Len(presented.results)
    /\ ppc' = "returned"
    /\ UNCHANGED <<view, listings, presented, events, rvars, qvars, fvars>>

PresentIdle ==
    /\ view = {}
    /\ listings = <<>>
    /\ ppc = "idle"
    /\ presented = [results |-> <<>>, next |-> 1]
    /\ events = <<>>

\* ------------------------------------------------------------------------
\* fetch_results  (src/CreeDictionary/API/search/lookup.py)
\* ------------------------------------------------------------------------
\* search_run.internal_query, the effective query string of the run
internal_query == <<"a", "b">>

Min(a, b) == IF a <= b THEN a ELSE b

\* get_modified_distance: the edit distance between two texts
RECURSIVE get_modified_distance(_, _)
get_modified_distance(s, t) ==
    IF s = <<>> THEN Len(t)
    ELSE IF t = <<>> THEN Len(s)
    ELSE Min(Min(get_modified_distance(Tail(s), t) + 1,
                 get_modified_distance(s, Tail(t)) + 1),
             get_modified_distance(Tail(s), Tail(t))
                 + (IF Head(s) = Head(t) THEN 0 ELSE 1))

\* RichAnalysis.tag_set
tag_set(analysis) ==
    {analysis.prefix_tags[i] : i \in 1..Len(analysis.prefix_tags)}
        \cup {analysis.suffix_tags[i] : i \in 1..Len(analysis.suffix_tags)}

\* RichAnalysis.tag_intersection_count
tag_intersection_count(analysis, other) ==
    Cardinality(tag_set(analysis) \cap tag_set(other))

\* the lexicons: saved wordforms with the primary keys 1..n, each with a
\* stored analysis and its own lemma
WordformFields ==
    [text : {TextA, TextAB}, analysis : StoredAnalyses, is_lemma : BOOLEAN]

Lexicons ==
    UNION {
        { {Wordform(id, f[id].text, f[id].analysis, f[id].is_lemma, id) :
              id \in 1..n} : f \in [1..n -> WordformFields] }
        : n \in 0..MaxSaved }

\* a queryset as a list: the rows in primary-key order
RECURSIVE InIdOrder(_)
InIdOrder(wordforms) ==
    IF wordforms = {} THEN <<>>
    ELSE LET first == CHOOSE w \in wordforms :
                          \A v \in wordforms : w.id <= v.id
         IN  <<first>> \o InIdOrder(wordforms \ {first})

Elements(seq) == {seq[i] : i \in 1..Len(seq)}

NoRepeats(seq) == \A i, j \in 1..Len(seq) : seq[i] = seq[j] => i = j

\* what rich_analyze_relaxed can return: distinct analyses, in some order
AnalyzerOutputs ==
    {seq \in BoundedSeq(Analyses, MaxAnalyses) : NoRepeats(seq)}

\* what strict_generator().lookup can return: distinct forms, in some order
GeneratedForms == {<<"a">>, <<"b">>, <<"a", "b">>}

GeneratorOutputs ==
    {seq \in BoundedSeq(GeneratedForms, MaxForms) : NoRepeats(seq)}

\* stem_keywords(query)
StemOutputs == {<<>>, <<"star">>}

\* add_result over a list of Results, in order
RECURSIVE AddAll(_, _)
AddAll(self, candidates) ==
    IF candidates = <<>> THEN self
    ELSE AddAll(add_result(self, Head(candidates)).self, Tail(candidates))

\* fetch_results_from_keywords: every wordform that carries a stemmed
\* keyword of the query is added with the keyword as evidence
FetchResultsFromKeywords ==
    /\ fpc = "keywords"
    /\ \E stems \in StemOutputs :
       \E hits \in [1..Len(stems) -> SUBSET lexicon] :
           search_run' =
               IF stems = <<>> THEN search_run
               ELSE AddAll(search_run,
                           LET found == InIdOrder(hits[1]) IN
                           [i \in 1..Len(found) |->
                               KeywordResult(found[i], stems[1])])
    /\ fpc' = "analyze"
    /\ UNCHANGED <<lexicon, fst_analyses, db_matches, todo, log, matched,
                   synthesized, generated>>
    /\ UNCHANGED <<raised, call, passed, seen, ncalls, qvars, pvars>>

\* Wordform.objects.filter(raw_analysis__in=[a.tuple for a in fst_analyses])
FilterByAnalyses(analyses) ==
    {wf \in lexicon : wf.analysis \in Elements(analyses)}

\* fst_analyses = rich_analyze_relaxed(query); db_matches = list(...)
AnalyzeRelaxed ==
    /\ fpc = "analyze"
    /\ \E analyses \in AnalyzerOutputs :
           /\ fst_analyses' = analyses
           /\ db_matches' = FilterByAnalyses(analyses)
    /\ fpc' = "matches"
    /\ UNCHANGED <<lexicon, todo, log, matched, synthesized, generated>>
    /\ UNCHANGED <<rvars, qvars, pvars>>

\* A slip: the analysis of an exact match stays in the list
remove_Keep(analyses, analysis) == analyses

\* fst_analyses.remove(analysis): the list without the first occurrence
remove(analyses, analysis) ==
    LET i == CHOOSE i \in 1..Len(analyses) :
                 /\ analyses[i] = analysis
                 /\ \A j \in 1..(i - 1) : analyses[j] # analysis
    IN  SubSeq(analyses, 1, i - 1) \o SubSeq(analyses, i + 1, Len(analyses))

\* one pass of "for wf in db_matches": the match is added, then the
\* assertion is checked, then the analysis is removed
ExactMatch(wf) ==
    /\ fpc = "matches"
    /\ wf \in db_matches
    /\ search_run' =
           add_result(search_run,
               SurfaceResult(wf, get_modified_distance(wf.text,
                                                       internal_query))).self
    /\ matched' = matched \cup {wf.analysis}
    /\ IF wf.analysis \in Elements(fst_analyses)
       THEN /\ fst_analyses' = remove(fst_analyses, wf.analysis)
            /\ db_matches' = db_matches \ {wf}
            /\ UNCHANGED <<raised, fpc>>
       ELSE /\ raised' = "AssertionError"
            /\ fpc' = "aborted"
            /\ UNCHANGED <<fst_analyses, db_matches>>
    /\ UNCHANGED <<lexicon, todo, log, synthesized, generated>>
    /\ UNCHANGED <<call, passed, seen, ncalls, qvars, pvars>>

\* the first loop is over; the second visits what is left of fst_analyses
StartGeneration ==
    /\ fpc = "matches"
    /\ db_matches = {}
    /\ todo' = fst_analyses
    /\ fpc' = "generate"
    /\ UNCHANGED <<lexicon, fst_analyses, db_matches, log, matched,
                   synthesized, generated>>
    /\ UNCHANGED <<rvars, qvars, pvars>>

\* A slip: of the closest forms the last one is taken
ClosestForm_Last(forms) ==
    LET d(i) == get_modified_distance(forms[i], internal_query)
    IN  forms[CHOOSE i \in 1..Len(forms) :
                  /\ \A j \in 1..Len(forms) : d(i) <= d(j)
                  /\ \A j \in (i + 1)..Len(forms) : d(j) > d(i)]

\* min(forms, key=distance to the query): the first of the closest forms
ClosestForm(forms) ==
    LET d(i) == get_modified_distance(forms[i], internal_query)
    IN  forms[CHOOSE i \in 1..Len(forms) :
                  /\ \A j \in 1..Len(forms) : d(i) <= d(j)
                  /\ \A j \in 1..(i - 1) : d(j) > d(i)]

\* A slip: of the lemma wordforms that share the most tags only the first
\* is kept
possible_lemma_wordforms_First(analysis) ==
    LET named == {lwf \in lexicon :
                     lwf.text = analysis.lemma /\ lwf.is_lemma}
        count(lwf) == tag_intersection_count(analysis, lwf.analysis)
        most == InIdOrder({lwf \in named :
                              \A other \in named : count(lwf) >= count(other)})
    IN  IF Cardinality(named) > 1 THEN <<Head(most)>> ELSE InIdOrder(named)

\* the lemma wordforms of an analysis: those with its lemma text, thinned,
\* when there are several, to those that share the most tags with it
possible_lemma_wordforms(analysis) ==
    LET named == {lwf \in lexicon :
                     lwf.text = analysis.lemma /\ lwf.is_lemma}
        count(lwf) == tag_intersection_count(analysis, lwf.analysis)
    IN  IF Cardinality(named) > 1
        THEN InIdOrder({lwf \in named :
                           \A other \in named : count(lwf) >= count(other)})
        ELSE InIdOrder(named)

\* A slip: the synthetic wordform is saved, and so given a primary key
SyntheticWordform_Saved(text, analysis, lemma_wordform) ==
    Wordform(MaxSaved + lemma_wordform.id, text, analysis, FALSE,
             lemma_wordform.id)

\* Wordform(text=..., raw_analysis=analysis.tuple, lemma=lemma_wordform)
SyntheticWordform(text, analysis, lemma_wordform) ==
    Wordform(NoId, text, analysis, FALSE, lemma_wordform.id)

\* A slip: "break" for "continue" when nothing is generated, so that the
\* analyses after the bad one are never visited
Generate_Break ==
    /\ fpc = "generate"
    /\ todo # <<>>
    /\ LET analysis == Head(todo) IN
       \E normatized_form_for_analysis \in GeneratorOutputs :
           /\ generated' = normatized_form_for_analysis
           /\ IF Len(normatized_form_for_analysis) = 0
              THEN /\ log' = Append(log, [error |-> "Cannot generate",
                                          analysis |-> analysis])
                   /\ todo' = <<>>
                   /\ UNCHANGED <<search_run, synthesized>>
              ELSE LET normatized_user_query ==
                           ClosestForm(normatized_form_for_analysis)
                       lemmas == possible_lemma_wordforms(analysis)
                       synthetic ==
                           [i \in 1..Len(lemmas) |->
                               SyntheticWordform(normatized_user_query,
                                                 analysis, lemmas[i])]
                   IN  /\ search_run' =
                              AddAll(search_run,
                                  [i \in 1..Len(lemmas) |->
                                      SyntheticResult(synthetic[i],
                                          get_modified_distance(
                                              internal_query,
                                              normatized_user_query))])
                       /\ synthesized' = synthesized \cup Elements(synthetic)
                       /\ todo' = Tail(todo)
                       /\ UNCHANGED log
    /\ UNCHANGED <<lexicon, fpc, fst_analyses, db_matches, matched>>
    /\ UNCHANGED <<raised, call, passed, seen, ncalls, qvars, pvars>>

\* one pass of "for analysis in fst_analyses"
Generate ==
    /\ fpc = "generate"
    /\ todo # <<>>
    /\ LET analysis == Head(todo) IN
       \E normatized_form_for_analysis \in GeneratorOutputs :
           /\ generated' = normatized_form_for_analysis
           /\ IF Len(normatized_form_for_analysis) = 0
              THEN /\ log' = Append(log, [error |-> "Cannot generate",
                                          analysis |-> analysis])
                   /\ UNCHANGED <<search_run, synthesized>>
              ELSE LET normatized_user_query ==
                           ClosestForm(normatized_form_for_analysis)
                       lemmas == possible_lemma_wordforms(analysis)
                       synthetic ==
                           [i \in 1..Len(lemmas) |->
                               SyntheticWordform(normatized_user_query,
                                                 analysis, lemmas[i])]
                   IN  /\ search_run' =
                              AddAll(search_run,
                                  [i \in 1..Len(lemmas) |->
                                      SyntheticResult(synthetic[i],
                                          get_modified_distance(
                                              internal_query,
                                              normatized_user_query))])
                       /\ synthesized' = synthesized \cup Elements(synthetic)
                       /\ UNCHANGED log
    /\ todo' = Tail(todo)
    /\ UNCHANGED <<lexicon, fpc, fst_analyses, db_matches, matched>>
    /\ UNCHANGED <<raised, call, passed, seen, ncalls, qvars, pvars>>

\* return
Return ==
    /\ fpc = "generate"
    /\ todo = <<>>
    /\ fpc' = "done"
    /\ UNCHANGED <<lexicon, fst_analyses, db_matches, todo, log, matched,
                   synthesized, generated>>
    /\ UNCHANGED <<rvars, qvars, pvars>>

FetchIdle ==
    /\ lexicon = {}
    /\ fpc = "idle"
    /\ fst_analyses = <<>>
    /\ db_matches = {}
    /\ todo = <<>>
    /\ log = <<>>
    /\ matched = {}
    /\ synthesized = {}
    /\ generated = <<>>

\* fetch_results is called on a new SearchRun, over some lexicon
FetchCalled ==
    /\ lexicon \in Lexicons
    /\ fpc = "keywords"
    /\ fst_analyses = <<>>
    /\ db_matches = {}
    /\ todo = <<>>
    /\ log = <<>>
    /\ matched = {}
    /\ synthesized = {}
    /\ generated = <<>>

NextFetch ==
    \/ FetchResultsFromKeywords
    \/ AnalyzeRelaxed
    \/ \E wf \in db_matches : ExactMatch(wf)
    \/ StartGeneration
    \/ Generate
    \/ Return

\* ---- the specifications ----
\* a SearchRun that its callers add to and remove from
Init == QueryIdle /\ RunIdle /\ FetchIdle /\ PresentIdle

Next ==
    \/ \E result \in ResultCandidates \cup NonResults : AddResult(result)
    \/ \E result \in ResultCandidates : RemoveResult(result)
    \/ AddVerboseMessage("message")

Spec == Init /\ [][Next]_vars

\* the construction of a Query, and of a Query from its query_string
NextQuery == Construct \/ Reparse

InitQuery == QueryNew /\ RunIdle /\ FetchIdle /\ PresentIdle

SpecQuery == InitQuery /\ [][NextQuery]_vars

\* a SearchRun that is added to, removed from, read and presented; the
\* run is used by one caller at a time
NextPresent ==
    \/ ppc = "idle" /\ \E result \in PresentCandidates : AddResult(result)
    \/ ppc = "idle" /\ \E result \in PresentCandidates : RemoveResult(result)
    \/ UnsortedResults
    \/ SortedResults
    \/ PresentationResults
    \/ Disambiguate
    \/ Serialize
    \/ ReturnSerialized

SpecPresent == Init /\ [][NextPresent]_vars

\* one run of fetch_results
InitFetch == QueryIdle /\ RunIdle /\ FetchCalled /\ PresentIdle

SpecFetch == InitFetch /\ [][NextFetch]_vars

\* ------------------------------------------------------------------------
\* Properties of SearchRun, checked under Spec
\* ------------------------------------------------------------------------
Held == 1..Len(search_run.results)

HeldResult(i) == search_run.results[i].result

HeldIdentity(i) == WordformIdentity(HeldResult(i).wordform)

HasFeature(result, feature) ==
    \E e \in result.evidence : feature \in DOMAIN e

\* C1: the result map holds at most one Result per wordform identity, and
\* never more Results than there are distinct identities among the
\* candidates handed to add_result.
C1_OneResultPerIdentity ==
    /\ \A i, j \in Held : HeldIdentity(i) = HeldIdentity(j) => i = j
    /\ Len(search_run.results) <= Cardinality(seen)

\* two Results are held, one of them for an unsaved wordform, after more
\* candidates than that were added
C1_Witness ==
    /\ Len(search_run.results) = 2
    /\ \E i \in Held : HeldResult(i).wordform.id = NoId
    /\ call.op = "add_result"
    /\ raised = None
    /\ ncalls > 2
    /\ \A p \in passed : \E i \in Held : HeldIdentity(i) = p.identity

\* C2: every evidence item handed to add_result for an identity (since the
\* identity was last removed) is on the single Result held for that
\* identity.
C2_EvidenceAccumulates ==
    \A p \in passed :
        /\ Cardinality({i \in Held : HeldIdentity(i) = p.identity}) = 1
        /\ \A i \in Held :
               HeldIdentity(i) = p.identity
                   => p.item \in HeldResult(i).evidence

\* one Result carries the evidence of the keyword strategy and of the
\* surface strategy
C2_Witness ==
    \E i \in Held :
        /\ HasFeature(HeldResult(i), "target_language_keyword_match")
        /\ HasFeature(HeldResult(i), "source_language_match")
        /\ HasFeature(HeldResult(i), "query_wordform_edit_distance")

\* C8: add_result called with a value that is not a Result raises
\* TypeError and leaves the result map and the messages as they were.
C8_NonResultRaisesTypeError ==
    [][(call'.op = "add_result" /\ ~IsResult(call'.arg))
          => (raised' = "TypeError" /\ search_run' = search_run)]_vars

\* a value that is no Result was handed to a run that holds a Result and a
\* message
C8_Witness ==
    /\ call.op = "add_result"
    /\ ~IsResult(call.arg)
    /\ raised = "TypeError"
    /\ Len(search_run.results) > 0
    /\ Len(search_run.verbose_messages) > 0

\* ------------------------------------------------------------------------
\* Properties of reading and presenting, checked under SpecPresent
\* ------------------------------------------------------------------------
\* which Results a collection holds, in order: each by the key of its
\* wordform (a run holds one Result object per key)
Members(list) == [i \in 1..Len(list) |-> key(list[i].wordform)]

\* C13: the collection unsorted_results returned holds, whenever it is
\* read, the Results the run held at the time of the call.
C13_UnsortedResultsIsSnapshot ==
    \A v \in view :
        Members(Contents(v.returned, search_run)) = Members(v.at_call)

KeysOf(self) == [i \in 1..Len(self.results) |-> self.results[i].key]

\* C14: every list sorted_results returned holds each Result of the run
\* exactly once, the call left the keys of the result map as they were,
\* and a call on the run as an earlier call left it returned the same list.
C14_SortedResults ==
    \A n \in 1..Len(listings) :
        LET l == listings[n] IN
        /\ Len(l.list) = Len(l.before.results)
        /\ \A k \in 1..Len(l.before.results) :
               Cardinality({j \in 1..Len(l.list) :
                               Members(l.list)[j] = l.before.results[k].key})
                   = 1
        /\ KeysOf(l.after) = KeysOf(l.before)
        /\ \A m \in 1..Len(listings) :
               listings[m].before = l.after => listings[m].list = l.list

\* sorted_results was called twice in a row on a run of two Results or
\* more, and the order it returned is not the order of insertion
C14_Witness ==
    /\ Len(listings) = 2
    /\ listings[2].before = listings[1].after
    /\ Len(listings[1].list) >= 2
    /\ Members(listings[1].list) # KeysOf(listings[1].after)
    /\ call.op = "sorted_results"

DisambiguateEvents ==
    {n \in 1..Len(events) : events[n].op = "bulk_homograph_disambiguate"}

SerializeEvents == {n \in 1..Len(events) : events[n].op = "serialize"}

\* the saved lemma wordforms among the wordforms of the final result list
\* and the lemmas of those wordforms
LemmaSet(results) ==
    {wf \in {results[i].wordform : i \in 1..Len(results)}
                \cup {LemmaOf(results[i].wordform) : i \in 1..Len(results)} :
        wf.is_lemma /\ wf.id # NoId}

\* C16: serialized_presentation_results disambiguates once, over the saved
\* lemma wordforms among the wordforms of the final result list and their
\* lemmas, and no Result is serialized before that.
C16_DisambiguationBeforeSerialization ==
    /\ Cardinality(DisambiguateEvents) <= 1
    /\ ppc \in {"serialize", "returned"} =>
           Cardinality(DisambiguateEvents) = 1
    /\ \A d \in DisambiguateEvents :
           LET arg == events[d].arg IN
           {arg[i] : i \in 1..Len(arg)} = LemmaSet(presented.results)
    /\ \A n \in SerializeEvents : \E d \in DisambiguateEvents : d < n
    /\ ppc = "returned" =>
           [n \in 1..(Len(events) - 1) |-> events[n + 1].arg]
               = presented.results

\* a list of two Results or more was serialized, one of them for a
\* wordform whose lemma is saved and is the wordform of no Result
C16_Witness ==
    /\ ppc = "returned"
    /\ Cardinality(SerializeEvents) >= 2
    /\ \E i \in 1..Len(presented.results) :
           \A j \in 1..Len(presented.results) :
               presented.results[j].wordform
                   # LemmaOf(presented.results[i].wordform)

\* ------------------------------------------------------------------------
\* Properties of fetch_results, checked under SpecFetch
\* ------------------------------------------------------------------------
StoredWith(analysis) == {wf \in lexicon : wf.analysis = analysis}

\* C9: an analysis for which the lexicon holds a wordform is gone from the
\* candidate list once its exact match is added, the second loop visits no
\* such analysis, and no synthetic wordform is built for one.
C9_ExactMatchNotSynthesized ==
    /\ \A analysis \in matched : analysis \notin Elements(fst_analyses)
    /\ fpc \in {"generate", "done"} =>
           \A analysis \in Elements(todo) : StoredWith(analysis) = {}
    /\ \A w \in synthesized :
           /\ w.analysis \notin matched
           /\ StoredWith(w.analysis) = {}

\* a run that added an exact match and a synthetic Result has returned
C9_Witness ==
    /\ fpc = "done"
    /\ matched # {}
    /\ \E i \in Held :
           /\ HeldResult(i).wordform \in synthesized
           /\ HasFeature(HeldResult(i), "pronoun_as_is_match")
    /\ \E i \in Held : HasFeature(HeldResult(i), "source_language_match")

\* C10: every synthetic wordform built in the second loop, one per
\* surviving lemma candidate, is the wordform of a Result the run holds.
C10_OneResultPerLemmaCandidate ==
    \A w \in synthesized : \E i \in Held : HeldResult(i).wordform = w

\* the place of an analysis in the list the second loop walks
PlaceOf(analysis) ==
    CHOOSE i \in 1..Len(fst_analyses) : fst_analyses[i] = analysis

\* the pass of the second loop that is taken found nothing to generate
NothingGenerated == fpc = "generate" /\ Len(log') = Len(log) + 1

\* C11: a pass of the second loop in which the generator returns nothing
\* logs the analysis, leaves the Results of the run as they are, raises
\* nothing, and goes on to the analysis after it.
C11_EmptyGenerationSkipped ==
    [][NothingGenerated =>
          /\ log'[Len(log')].analysis = Head(todo)
          /\ search_run' = search_run
          /\ raised' = raised
          /\ fpc' = "generate"
          /\ todo' = Tail(todo)]_vars

\* the run returned with a Result from before the bad analysis (a keyword
\* match), a diagnostic for the bad analysis, and a synthetic Result of an
\* analysis that came after it
C11_Witness ==
    /\ fpc = "done"
    /\ Len(log) = 1
    /\ \E i \in Held :
           HasFeature(HeldResult(i), "target_language_keyword_match")
    /\ \E i \in Held :
           /\ HeldResult(i).wordform \in synthesized
           /\ PlaceOf(HeldResult(i).wordform.analysis)
                  > PlaceOf(log[1].analysis)

\* the pass of the first loop that is taken met a wordform whose analysis
\* is not (or no longer) in the list: nothing was removed from the list
InconsistentMatch ==
    /\ fpc = "matches"
    /\ fpc' # "generate"
    /\ fst_analyses' = fst_analyses

\* C12: a matched wordform whose analysis is not in the list of query
\* analyses is logged and skipped, and the run goes on; nothing is raised.
C12_InconsistencyLoggedAndSkipped ==
    [][InconsistentMatch =>
          /\ Len(log') = Len(log) + 1
          /\ raised' = None
          /\ fpc' = "matches"]_vars

\* C15: no step of fetch_results changes the saved wordforms, and every
\* wordform synthesized so far is unsaved: it has no primary key and is not
\* among the saved wordforms.
C15_LexiconUntouched ==
    [][/\ lexicon' = lexicon
       /\ \A w \in synthesized' : w.id = NoId /\ w \notin lexicon']_vars

\* a run over a lexicon returned after adding a keyword match, an exact
\* match and a synthetic Result
C15_Witness ==
    /\ fpc = "done"
    /\ lexicon # {}
    /\ synthesized # {}
    /\ \E i \in Held : HeldResult(i).wordform \in synthesized
    /\ \E i \in Held : HasFeature(HeldResult(i), "source_language_match")
    /\ \E i \in Held :
           HasFeature(HeldResult(i), "target_language_keyword_match")

\* a diagnostic names the analysis: logger.error was called with it, or
\* the run was given a verbose message
Diagnosed(analysis) ==
    \/ \E n \in 1..Len(log) : log[n].analysis = analysis
    \/ search_run.verbose_messages # <<>>

\* C17: once fetch_results has returned, every analysis the second loop
\* visited either gave a synthetic wordform or has a diagnostic.
C17_NoSilentDiscard ==
    fpc = "done" =>
        \A analysis \in Elements(fst_analyses) :
            \/ \E w \in synthesized : w.analysis = analysis
            \/ Diagnosed(analysis)

\* remove_cree_diacritics: the vowels without their circumflex or macron
PlainChunk(c) ==
    IF c \in {"a-circumflex", "a-macron"} THEN "a" ELSE c

remove_cree_diacritics(text) == [i \in 1..Len(text) |-> PlainChunk(text[i])]

\* the surface-keyword index entry of a saved wordform: its text without
\* diacritics
SurfaceKeyword(wordform) == remove_cree_diacritics(wordform.text)

\* C18: once fetch_results has returned, every saved wordform whose
\* surface keyword is the query, or the query without diacritics, is the
\* wordform of a Result with source-language keyword evidence.
C18_SourceLanguageKeywordMatch ==
    fpc = "done" =>
        \A wf \in lexicon :
            SurfaceKeyword(wf)
                    \in {internal_query,
                         remove_cree_diacritics(internal_query)}
                => \E i \in Held :
                       /\ HeldResult(i).wordform = wf
                       /\ HasFeature(HeldResult(i),
                                     "source_language_keyword_match")

\* a pass of the second loop was taken; the analysis of the last one
Visited == fpc \in {"generate", "done"} /\ Len(todo) < Len(fst_analyses)

LastVisited == fst_analyses[Len(fst_analyses) - Len(todo)]

\* the synthetic wordforms built in the last pass
LastSynthesized == {w \in synthesized : w.analysis = LastVisited}

DistanceToQuery(form) == get_modified_distance(form, internal_query)

\* C19: the text of the synthetic wordforms of a pass is a generated form
\* that no generated form is closer to the query than, and that every
\* form generated before it is farther from the query than; the Result
\* held for the wordform carries the distance of that form to the query.
C19_ClosestFormFirstOfTies ==
    Visited =>
        \A w \in LastSynthesized :
            /\ \E i \in 1..Len(generated) :
                   /\ generated[i] = w.text
                   /\ \A j \in 1..Len(generated) :
                          DistanceToQuery(generated[j])
                              >= DistanceToQuery(w.text)
                   /\ \A j \in 1..(i - 1) :
                          DistanceToQuery(generated[j])
                              > DistanceToQuery(w.text)
            /\ \E i \in Held :
                   /\ key(HeldResult(i).wordform) = key(w)
                   /\ Distances(HeldResult(i)) = {DistanceToQuery(w.text)}

\* two forms at the same distance from the query were generated, and a
\* synthetic Result was added for the first
C19_Witness ==
    /\ Visited
    /\ Len(generated) = 2
    /\ DistanceToQuery(generated[1]) = DistanceToQuery(generated[2])
    /\ \E w \in LastSynthesized :
           /\ w.text = generated[1]
           /\ \E i \in Held : HeldResult(i).wordform = w

\* the candidates: the saved lemma wordforms with the lemma text of the
\* analysis
LemmaCandidates(analysis) ==
    {wf \in lexicon : wf.is_lemma /\ wf.text = analysis.lemma}

Overlap(analysis, wf) ==
    Cardinality(tag_set(analysis) \cap tag_set(wf.analysis))

\* the survivors: a single candidate as it is, of several those no other
\* candidate shares more tags with the analysis than
Survivors(analysis) ==
    IF Cardinality(LemmaCandidates(analysis)) = 1
    THEN LemmaCandidates(analysis)
    ELSE {wf \in LemmaCandidates(analysis) :
             \A other \in LemmaCandidates(analysis) :
                 Overlap(analysis, wf) >= Overlap(analysis, other)}

\* C20: the lemmas of the synthetic wordforms built in a pass that
\* generated a form are exactly the survivors among the candidates.
C20_LemmaCandidates ==
    (Visited /\ generated # <<>>) =>
        {w.lemma : w \in LastSynthesized}
            = {wf.id : wf \in Survivors(LastVisited)}

\* of two candidates one shares fewer tags with the analysis and is
\* dropped, the other survives
C20_Witness ==
    /\ Visited
    /\ generated # <<>>
    /\ Cardinality(LemmaCandidates(LastVisited)) = 2
    /\ Cardinality(Survivors(LastVisited)) = 1
    /\ LastSynthesized # {}

\* the analyses the relaxed analyzer returned: those still in the list and
\* those removed from it after an exact match
Returned_Analyses == Elements(fst_analyses) \cup matched

\* the saved wordforms stored with an analysis the analyzer returned
ConsistentMatches == {wf \in lexicon : wf.analysis \in Returned_Analyses}

\* C21: when every matched wordform is stored with an analysis the relaxed
\* analyzer returned, the consistency assertion fails for none of them, and
\* once the first loop is over each of them is the wordform of a Result
\* with surface-match evidence.
C21_ConsistentMatchesAllAdded ==
    (\A wf \in db_matches : wf \in ConsistentMatches) =>
        /\ raised # "AssertionError"
        /\ fpc # "aborted"
        /\ fpc \in {"generate", "done"} =>
               \A wf \in ConsistentMatches :
                   \E i \in Held :
                       /\ HeldResult(i).wordform = wf
                       /\ HasFeature(HeldResult(i), "source_language_match")

\* ------------------------------------------------------------------------
\* Properties of Query, checked under SpecQuery
\* ------------------------------------------------------------------------
DirectiveKeys == {<<"verbose">>, <<"auto">>, <<"cvd">>}

IsDirectiveToken(token) == HasColon(token) /\ UserKey(token) \in DirectiveKeys

\* the tokens the constructor scans
RawTokens == split(Normalize(raw))

\* the tokens of the effective query string
EffectiveTokens == split(q.query_string)

Parsed == qpc # "new"

\* a value that names a member of the enumeration, by number or by name
CvdRecognized(value) ==
    \/ value \in {<<"0">>, <<"1">>, <<"2">>}
    \/ value \in {<<"off">>, <<"exclusive">>, <<"retrieval">>}

\* a directive token whose value the directive does not recognise
Unrecognized(token) ==
    /\ IsDirectiveToken(token)
    /\ IF UserKey(token) = <<"cvd">>
       THEN ~CvdRecognized(Value(token))
       ELSE Value(token) \notin truthy

\* C3: the effective query string holds no token whose key is a recognized
\* directive, and a Query built from the effective query string has the
\* same effective query string.
C3_EffectiveQueryIdempotent ==
    /\ Parsed =>
         /\ q.constructed
         /\ \A i \in 1..Len(EffectiveTokens) :
                ~IsDirectiveToken(EffectiveTokens[i])
    /\ qpc = "reparsed" =>
         /\ q2.constructed
         /\ q2.query_string = q.query_string

CvdNamed(value) ==
    CASE value \in {<<"0">>, <<"off">>} -> "OFF"
      [] value \in {<<"1">>, <<"exclusive">>} -> "EXCLUSIVE"
      [] value \in {<<"2">>, <<"retrieval">>} -> "RETRIEVAL"

IsCvdToken(token) == HasColon(token) /\ UserKey(token) = <<"cvd">>

\* C5: a cvd token is removed from the query terms whether or not its value
\* resolves, no value raises an error, and the variant recorded is the one
\* named, by number or by name, by the last cvd token that names one.
C5_CvdConsumedNoError ==
    Parsed =>
        /\ q.constructed
        /\ q.raised = None
        /\ \A j \in 1..Len(q.query_terms) : ~IsCvdToken(q.query_terms[j])
        /\ \A i \in 1..Len(RawTokens) :
             (/\ IsCvdToken(RawTokens[i])
              /\ CvdRecognized(Value(RawTokens[i]))
              /\ \A k \in (i + 1)..Len(RawTokens) :
                     ~(/\ IsCvdToken(RawTokens[k])
                       /\ CvdRecognized(Value(RawTokens[k]))))
                => q.cvd = CvdNamed(Value(RawTokens[i]))
        /\ (\A i \in 1..Len(RawTokens) :
                IsCvdToken(RawTokens[i])
                    => ~CvdRecognized(Value(RawTokens[i])))
                => q.cvd = Unset

\* a numeric value outside the enumeration has been parsed
C5_Witness ==
    /\ Parsed
    /\ \E i \in 1..Len(RawTokens) :
           /\ IsCvdToken(RawTokens[i])
           /\ Value(RawTokens[i]) = <<"9">>
    /\ q.constructed
    /\ q.cvd = Unset

IsKeyToken(token, name) == HasColon(token) /\ UserKey(token) = <<name>>

\* C6: a boolean directive token is consumed, and the directive is true
\* exactly when the value of its last token is in the truthy vocabulary;
\* "verbose:true auto:no catches" gives verbose, not auto, and "catches".
C6_BooleanDirectives ==
    Parsed =>
        /\ q.constructed
        /\ \A name \in {"verbose", "auto"} :
             /\ \A j \in 1..Len(q.query_terms) :
                    ~IsKeyToken(q.query_terms[j], name)
             /\ \A i \in 1..Len(RawTokens) :
                  (/\ IsKeyToken(RawTokens[i], name)
                   /\ \A k \in (i + 1)..Len(RawTokens) :
                          ~IsKeyToken(RawTokens[k], name))
                     => q[name] = Some(Value(RawTokens[i]) \in truthy)
             /\ (\A i \in 1..Len(RawTokens) : ~IsKeyToken(RawTokens[i], name))
                    => q[name] = NoBool
        /\ raw = ScenarioQuery =>
             /\ q.verbose = Some(TRUE)
             /\ q.auto = Some(FALSE)
             /\ q.query_string = <<"catches">>

\* the scenario's query has been parsed
C6_Witness ==
    /\ Parsed
    /\ raw = ScenarioQuery
    /\ q.constructed
    /\ q.query_terms = <<(<<"catches">>)>>

\* C7: is_valid is true exactly when the effective query string is
\* non-empty; a query of nothing but whitespace and directives is invalid,
\* and no query raises an error.
C7_IsValid ==
    Parsed =>
        /\ q.constructed
        /\ q.raised = None
        /\ q.is_valid <=> q.query_string # <<>>
        /\ (\A i \in 1..Len(RawTokens) : IsDirectiveToken(RawTokens[i]))
               => ~q.is_valid

\* an invalid query: whitespace only, and directives only
C7_Witness ==
    /\ Parsed
    /\ q.constructed
    /\ ~q.is_valid
    /\ raw # <<>>
    /\ \/ RawTokens = <<>>
       \/ q.verbose # NoBool

=============================================================================
